---- MODULE Spec2Model ----
(***************************************************************************)
(* Model of alertlib/alerta.py: the Alerta mixin of alertlib.              *)
(*                                                                         *)
(* One alert object (self), one set of call arguments and one state of the *)
(* base framework (rate limiter, test-mode flag) are drawn in Init.  Each  *)
(* action is one call of a function of the module, run to completion; the  *)
(* answers of the secret store and of urlopen are drawn when the call is   *)
(* made.  What the call did is recorded in ret, calls, log, requests and   *)
(* payload.                                                                *)
(*                                                                         *)
(* Python values: None is the empty tuple and any other optional value v   *)
(* is <<v>>, so that None differs from every string and every integer.     *)
(* The environment names of the resource table are tuples of characters,   *)
(* so that str.capitalize() is computed and not assumed.                   *)
(***************************************************************************)
EXTENDS Integers, Sequences, FiniteSets, TLC

VARIABLES pc, op, self, args, env, ret, calls, log, requests, payload

vars == <<pc, op, self, args, env, ret, calls, log, requests, payload>>

----------------------------------------------------------------------------
(* Python values *)

None == <<>>

Some(v) == <<v>>

\* truth value of an optional str: None and '' are false
truthy_str(o) == o # None /\ o[1] # ""

\* truth value of an optional int: None and 0 are false
truthy_int(o) == o # None /\ o[1] # 0

\* '%s' % o for an optional str
pystr(o) == IF o = None THEN "None" ELSE o[1]

LowerAlpha == <<"a", "b", "c", "d", "e", "f", "g", "h", "i", "j", "k", "l", "m",
                "n", "o", "p", "q", "r", "s", "t", "u", "v", "w", "x", "y", "z">>

UpperAlpha == <<"A", "B", "C", "D", "E", "F", "G", "H", "I", "J", "K", "L", "M",
                "N", "O", "P", "Q", "R", "S", "T", "U", "V", "W", "X", "Y", "Z">>

Range(s) == {s[i] : i \in DOMAIN s}

\* the upper-case letter of each lower-case letter
ToUpper == [c \in Range(LowerAlpha) |-> UpperAlpha[CHOOSE i \in DOMAIN LowerAlpha : LowerAlpha[i] = c]]

\* the lower-case letter of each upper-case letter
ToLower == [c \in Range(UpperAlpha) |-> LowerAlpha[CHOOSE i \in DOMAIN UpperAlpha : UpperAlpha[i] = c]]

\* str.upper() of one character
upper_char(c) == IF c \in DOMAIN ToUpper THEN ToUpper[c] ELSE c

\* str.lower() of one character
lower_char(c) == IF c \in DOMAIN ToLower THEN ToLower[c] ELSE c

RECURSIVE lower(_)
\* str.lower()
lower(s) == IF s = <<>> THEN <<>> ELSE <<lower_char(Head(s))>> \o lower(Tail(s))

RECURSIVE upper(_)
\* str.upper()
upper(s) == IF s = <<>> THEN <<>> ELSE <<upper_char(Head(s))>> \o upper(Tail(s))

\* capitalize written as upper(): every character upper-cased
capitalize_as_upper(s) == upper(s)

\* str.capitalize(): first character upper-cased, the rest lower-cased
capitalize(s) == IF s = <<>> THEN <<>> ELSE <<upper_char(Head(s))>> \o lower(Tail(s))

----------------------------------------------------------------------------
(* Module constants *)

_BASE_ALERTA_API_URL == "https://alerta.khanacademy.org/api"

_ENV_PROD == <<"P", "r", "o", "d", "u", "c", "t", "i", "o", "n">>

_ENV_DEV == <<"D", "e", "v", "e", "l", "o", "p", "m", "e", "n", "t">>

_SERVICE_KA == "Khanacademy.org"

_SERVICE_DEPLOY == "Deployment"

_SERVICE_WEBSERVER == "Internal Webserver"

_SERVICE_INTERNAL_SERVICES == "Internal Services"

_SERVICE_YOUTUBE_EXPORT == "Youtube Export"

_SERVICE_KHANALYTICS == "Khanalytics"

_SERVICE_KA_SANDBOX == "Sandbox"

_SERVICE_CACHING_PROXY == "Caching Proxy"

_SERVICE_DOMAIN_REDIRECT == "Domain Redirect"

_SERVICE_PRODUCTION_RPC_SERVERS == "Production RPC Servers"

_SERVICE_PHABRICATOR == "Phabricator"

_SERVICE_UNKNOWN == "Unknown"

_SERVICE_TEST == "Test"

_GROUP_WEB == "web"

_GROUP_MOBILE == "mobile"

_GROUP_TOOLS == "tools"

_GROUP_TEST == "test"

Classifiers(e, s, g) == [env |-> e, service |-> <<s>>, group |-> g]

MAP_RESOURCE_TO_ENV_SERVICE_AND_GROUP ==
    ("webapp" :> Classifiers(_ENV_PROD, _SERVICE_KA, _GROUP_WEB))
    @@ ("mobile" :> Classifiers(_ENV_PROD, _SERVICE_KA, _GROUP_MOBILE))
    @@ ("jenkins" :> Classifiers(_ENV_DEV, _SERVICE_DEPLOY, _GROUP_TOOLS))
    @@ ("toby" :> Classifiers(_ENV_PROD, _SERVICE_WEBSERVER, _GROUP_TOOLS))
    @@ ("youtube-export" :> Classifiers(_ENV_PROD, _SERVICE_YOUTUBE_EXPORT, _GROUP_TOOLS))
    @@ ("internal-services" :> Classifiers(_ENV_PROD, _SERVICE_INTERNAL_SERVICES, _GROUP_TOOLS))
    @@ ("khanalytics" :> Classifiers(_ENV_PROD, _SERVICE_KHANALYTICS, _GROUP_TOOLS))
    @@ ("sandbox" :> Classifiers(_ENV_PROD, _SERVICE_KA_SANDBOX, _GROUP_WEB))
    @@ ("caching-proxy" :> Classifiers(_ENV_PROD, _SERVICE_CACHING_PROXY, _GROUP_TOOLS))
    @@ ("domain-redirect" :> Classifiers(_ENV_PROD, _SERVICE_DOMAIN_REDIRECT, _GROUP_TOOLS))
    @@ ("production-rpc-servers" :> Classifiers(_ENV_PROD, _SERVICE_PRODUCTION_RPC_SERVERS, _GROUP_TOOLS))
    @@ ("phabricator" :> Classifiers(_ENV_DEV, _SERVICE_PHABRICATOR, _GROUP_TOOLS))
    @@ ("unknown-ec2-instance" :> Classifiers(_ENV_DEV, _SERVICE_UNKNOWN, _GROUP_TOOLS))
    @@ ("test" :> Classifiers(_ENV_DEV, _SERVICE_TEST, _GROUP_TEST))

\* the levels of the logging module that key the severity table
CRITICAL == 50

ERROR == 40

WARNING == 30

INFO == 20

DEBUG == 10

NOTSET == 0

_SEVERITY_TO_ALERTA_FORMAT ==
    (CRITICAL :> "critical")
    @@ (ERROR :> "major")
    @@ (WARNING :> "warning")
    @@ (INFO :> "informational")
    @@ (DEBUG :> "debug")
    @@ (NOTSET :> "unknown")

----------------------------------------------------------------------------
(* Records of what a call did *)

Call(fn, arg, answer) == [fn |-> fn, arg |-> arg, answer |-> answer]

LogRecord(level, fmt, fmtargs) == [level |-> level, fmt |-> fmt, args |-> fmtargs]

Return(v) == [kind |-> "return", value |-> v]

Raise(t) == [kind |-> "raise", value |-> t]

Effects(r, c, l, q, p) == [ret |-> r, calls |-> c, log |-> l, requests |-> q, payload |-> p]

\* str(e) of an exception built with one argument
exc_str(e) == e.arg

----------------------------------------------------------------------------
(* json.dumps and str.encode *)

\* the order in which send_to_alerta inserts the keys into the payload dict
PayloadKeyOrder == <<"resource", "event", "environment", "severity", "service",
                     "group", "text", "attributes", "timeout">>

RECURSIVE json_members(_, _)
json_members(p, keys) ==
    IF keys = <<>> THEN <<>>
    ELSE IF Head(keys) \in DOMAIN p
         THEN <<[key |-> Head(keys), value |-> p[Head(keys)]]>> \o json_members(p, Tail(keys))
         ELSE json_members(p, Tail(keys))

\* json.dumps(payload, ensure_ascii=False): the members of the object, one
\* per key of the dict, in insertion order
json_dumps(p) == json_members(p, PayloadKeyOrder)

\* payload_json.encode('utf-8')
encode_utf8(text) == [encoding |-> "utf-8", text |-> text]

----------------------------------------------------------------------------
(* _make_alerta_api_call *)

\* the success test without the blackout code 202
is_success_code_201_only(code) == code = 201

\* res.getcode() in [201, 202]
is_success_code(code) == code \in {201, 202}

\* The call with the answer alerta_api_key of the secret store and the
\* outcome of urlopen (a response, or an exception raised by urlopen).
\* raised is None when the function returns, else the exception that leaves it.
_make_alerta_api_call(payload_json, alerta_api_key, outcome) ==
    LET req == [url |-> _BASE_ALERTA_API_URL \o "/alert",
                method |-> "POST",
                headers |-> ("Authorization" :> ("Key " \o pystr(alerta_api_key)))
                            @@ ("Content-Type" :> "application/json"),
                data |-> encode_utf8(payload_json)]
    IN  [calls |-> <<Call("secret", "alerta_api_key", alerta_api_key),
                     Call("urlopen", req.url, outcome)>>,
         requests |-> <<req>>,
         raised |-> IF outcome.kind = "raise" THEN Some(outcome.exc)
                    ELSE IF ~is_success_code(outcome.code)
                         THEN Some([type |-> "ValueError", arg |-> outcome.body])
                         ELSE None]

----------------------------------------------------------------------------
(* _post_to_alerta *)

\* the credential gate written as `is None`: an empty key passes it
api_key_missing_none_only(key) == key = None

\* not base.secret('alerta_api_key')
api_key_missing(key) == ~truthy_str(key)

\* key1 is the secret store's answer to the lookup of _post_to_alerta, key2
\* its answer to the lookup of _make_alerta_api_call
_post_to_alerta(payload_json, key1, key2, outcome) ==
    IF api_key_missing(key1)
    THEN [calls |-> <<Call("secret", "alerta_api_key", key1)>>,
          log |-> <<LogRecord("warning", "Not sending to Alerta (no API key found): %s",
                              <<payload_json>>)>>,
          requests |-> <<>>]
    ELSE LET r == _make_alerta_api_call(payload_json, key2, outcome)
         IN  [calls |-> <<Call("secret", "alerta_api_key", key1)>> \o r.calls,
              log |-> IF r.raised # None
                      THEN <<LogRecord("error", "Failed sending %s to Alerta: %s",
                                       <<payload_json, exc_str(r.raised[1])>>)>>
                      ELSE <<>>,
              requests |-> r.requests]

----------------------------------------------------------------------------
(* Mixin.send_to_alerta *)

ReturnSelf == Return("self")

\* the two argument checks in the other order
validate_event_first(resource, event) ==
    IF event = None
    THEN <<LogRecord("error", "Event name must be provided. Failed to send to aggregator.", <<>>)>>
    ELSE IF resource = None
         THEN <<LogRecord("error", "Resource must be provided. Failed to send to aggregator.", <<>>)>>
         ELSE <<>>

\* the two argument checks: the log they write, empty when both pass
validate(resource, event) ==
    IF resource = None
    THEN <<LogRecord("error", "Resource must be provided. Failed to send to aggregator.", <<>>)>>
    ELSE IF event = None
         THEN <<LogRecord("error", "Event name must be provided. Failed to send to aggregator.", <<>>)>>
         ELSE <<>>

\* the severity without the resolve override
alerta_severity_ignores_resolve(severity, resolve) == _SEVERITY_TO_ALERTA_FORMAT[severity]

\* severity = _SEVERITY_TO_ALERTA_FORMAT[self.severity], 'cleared' if resolve
alerta_severity(severity, resolve) ==
    IF resolve THEN "cleared" ELSE _SEVERITY_TO_ALERTA_FORMAT[severity]

\* the payload with `if timeout is not None`: a zero timeout is included
build_payload_timeout_not_none(initiative, resource, event, environment, severity, service, group, text, timeout) ==
    LET base == [resource |-> resource,
                 event |-> event,
                 environment |-> environment,
                 severity |-> severity,
                 service |-> service,
                 group |-> group,
                 text |-> text,
                 attributes |-> [initiative |-> initiative]]
    IN  IF timeout # None THEN base @@ ("timeout" :> timeout[1]) ELSE base

\* the payload dict; timeout is the optional argument
build_payload(initiative, resource, event, environment, severity, service, group, text, timeout) ==
    LET attributes == [initiative |-> initiative]
        base == [resource |-> resource,
                 event |-> event,
                 environment |-> environment,
                 severity |-> severity,
                 service |-> service,
                 group |-> group,
                 text |-> text,
                 attributes |-> attributes]
    IN  IF truthy_int(timeout) THEN base @@ ("timeout" :> timeout[1]) ELSE base

\* the dispatch that logs in test mode and posts all the same
dispatch_posts_in_test_mode(payload_json, in_test_mode, key1, key2, outcome) ==
    LET r == _post_to_alerta(payload_json, key1, key2, outcome)
    IN  [calls |-> <<Call("_in_test_mode", "", in_test_mode)>> \o r.calls,
         log |-> IF in_test_mode
                 THEN <<LogRecord("info", "alertlib: would send to aggregator: %s",
                                  <<payload_json>>)>> \o r.log
                 ELSE r.log,
         requests |-> r.requests]

\* the test-mode branch: log only, or hand over to _post_to_alerta
dispatch(payload_json, in_test_mode, key1, key2, outcome) ==
    IF in_test_mode
    THEN [calls |-> <<Call("_in_test_mode", "", TRUE)>>,
          log |-> <<LogRecord("info", "alertlib: would send to aggregator: %s",
                              <<payload_json>>)>>,
          requests |-> <<>>]
    ELSE LET r == _post_to_alerta(payload_json, key1, key2, outcome)
         IN  [calls |-> <<Call("_in_test_mode", "", FALSE)>> \o r.calls,
              log |-> r.log,
              requests |-> r.requests]

\* send_to_alerta once the rate limit has passed
send_after_rate_limit(s, a, w, key1, key2, outcome) ==
    LET checks == validate(a.resource, a.event)
    IN  IF checks # <<>>
        THEN Effects(ReturnSelf, <<>>, checks, <<>>, None)
        ELSE IF a.resource[1] \notin DOMAIN MAP_RESOURCE_TO_ENV_SERVICE_AND_GROUP
        THEN Effects(Raise("KeyError"), <<>>, <<>>, <<>>, None)
        ELSE IF s.severity \notin DOMAIN _SEVERITY_TO_ALERTA_FORMAT
        THEN Effects(Raise("KeyError"), <<>>, <<>>, <<>>, None)
        ELSE LET resource_classifiers == MAP_RESOURCE_TO_ENV_SERVICE_AND_GROUP[a.resource[1]]
                 environment == capitalize(resource_classifiers.env)
                 service == resource_classifiers.service
                 group == resource_classifiers.group
                 severity == alerta_severity(s.severity, a.resolve)
                 text == s.summary
                 pl == build_payload(a.initiative, a.resource[1], a.event[1], environment,
                                     severity, service, group, text, a.timeout)
                 payload_json == json_dumps(pl)
                 d == dispatch(payload_json, w.test_mode, key1, key2, outcome)
             IN  Effects(ReturnSelf, <<Call("_get_summary", "", text)>> \o d.calls,
                         d.log, d.requests, Some(pl))

\* send_to_alerta without the early return of the rate-limit gate
send_to_alerta_no_gate(s, a, w, key1, key2, outcome) ==
    LET r == send_after_rate_limit(s, a, w, key1, key2, outcome)
    IN  Effects(r.ret, <<Call("_passed_rate_limit", "aggregator", w.rate_limit_ok)>> \o r.calls,
                r.log, r.requests, r.payload)

\* s is the alert object, a the arguments, w the state of the base framework
send_to_alerta(s, a, w, key1, key2, outcome) ==
    IF ~w.rate_limit_ok
    THEN Effects(ReturnSelf, <<Call("_passed_rate_limit", "aggregator", FALSE)>>,
                 <<>>, <<>>, None)
    ELSE LET r == send_after_rate_limit(s, a, w, key1, key2, outcome)
         IN  Effects(r.ret, <<Call("_passed_rate_limit", "aggregator", TRUE)>> \o r.calls,
                     r.log, r.requests, r.payload)

----------------------------------------------------------------------------
(* Inputs *)

\* the largest timeout, in seconds, a caller passes
MaxTimeout == 1

Initiatives == {"infrastructure", "independent-learning"}

\* None, every key of the resource table, and a name that is no key
AllResourceInputs == {None} \cup {Some(r) : r \in DOMAIN MAP_RESOURCE_TO_ENV_SERVICE_AND_GROUP}
                            \cup {Some("no-such-resource")}

\* None, a production and a development resource, and a name that is no key
ResourceInputs == {None, Some("webapp"), Some("jenkins"), Some("no-such-resource")}

EventInputs == {None, Some("ServiceDown")}

TimeoutInputs == {None} \cup {Some(t) : t \in 0..MaxTimeout}

\* every key of the severity table, and a level that is no key
SeverityInputs == DOMAIN _SEVERITY_TO_ALERTA_FORMAT \cup {25}

Summaries == {"disk is full"}

\* the answers of base.secret('alerta_api_key')
SecretAnswers == {None, Some(""), Some("key-A"), Some("key-B")}

ResponseCodes == {200, 201, 202, 500}

ResponseBodies == {"{\"status\": \"ok\"}", "Internal Server Error"}

\* what urlopen does: it returns a response, or raises
UrlopenOutcomes ==
    {[kind |-> "response", code |-> c, body |-> b] : c \in ResponseCodes, b \in ResponseBodies}
    \cup {[kind |-> "raise", exc |-> [type |-> "URLError", arg |-> "timed out"]]}

----------------------------------------------------------------------------
(* The state machine *)

\* nothing has been called yet
NotCalled ==
    /\ pc = "ready"
    /\ op = "none"
    /\ ret = [kind |-> "pending", value |-> ""]
    /\ calls = <<>>
    /\ log = <<>>
    /\ requests = <<>>
    /\ payload = None

Init ==
    /\ NotCalled
    /\ self \in [severity : SeverityInputs, summary : Summaries]
    /\ args \in [initiative : Initiatives, resource : ResourceInputs, event : EventInputs,
                 resolve : BOOLEAN, timeout : TimeoutInputs]
    /\ env \in [rate_limit_ok : BOOLEAN, test_mode : BOOLEAN]

\* every resource, with an event, under every state of the base framework
InitResources ==
    /\ NotCalled
    /\ self \in [severity : {ERROR, INFO}, summary : Summaries]
    /\ args \in [initiative : {"infrastructure"}, resource : AllResourceInputs,
                 event : {Some("ServiceDown")}, resolve : BOOLEAN, timeout : {None}]
    /\ env \in [rate_limit_ok : BOOLEAN, test_mode : BOOLEAN]

\* alert.send_to_alerta(initiative, resource, event, resolve, timeout)
SendToAlerta ==
    /\ pc = "ready"
    /\ \E key1 \in SecretAnswers, key2 \in SecretAnswers, outcome \in UrlopenOutcomes :
         \E r \in {send_to_alerta(self, args, env, key1, key2, outcome)} :
             /\ ret' = r.ret
             /\ calls' = r.calls
             /\ log' = r.log
             /\ requests' = r.requests
             /\ payload' = r.payload
    /\ pc' = "done"
    /\ op' = "send_to_alerta"
    /\ UNCHANGED <<self, args, env>>

\* the arguments are ones send_to_alerta builds a payload from
CanBuildPayload ==
    /\ args.resource # None
    /\ args.event # None
    /\ args.resource[1] \in DOMAIN MAP_RESOURCE_TO_ENV_SERVICE_AND_GROUP
    /\ self.severity \in DOMAIN _SEVERITY_TO_ALERTA_FORMAT

\* the document send_to_alerta serializes for the arguments
PayloadOfArgs ==
    LET rc == MAP_RESOURCE_TO_ENV_SERVICE_AND_GROUP[args.resource[1]]
    IN  build_payload(args.initiative, args.resource[1], args.event[1], capitalize(rc.env),
                      alerta_severity(self.severity, args.resolve), rc.service, rc.group,
                      self.summary, args.timeout)

\* a direct call _post_to_alerta(payload_json), as the module's tests make
PostToAlerta ==
    /\ pc = "ready"
    /\ CanBuildPayload
    /\ \E key1 \in SecretAnswers, key2 \in SecretAnswers, outcome \in UrlopenOutcomes :
         \E r \in {_post_to_alerta(json_dumps(PayloadOfArgs), key1, key2, outcome)} :
             /\ ret' = Return("None")
             /\ calls' = r.calls
             /\ log' = r.log
             /\ requests' = r.requests
    /\ payload' = Some(PayloadOfArgs)
    /\ pc' = "done"
    /\ op' = "_post_to_alerta"
    /\ UNCHANGED <<self, args, env>>

\* a direct call _make_alerta_api_call(payload_json)
MakeAlertaApiCall ==
    /\ pc = "ready"
    /\ CanBuildPayload
    /\ \E key \in SecretAnswers, outcome \in UrlopenOutcomes :
         \E r \in {_make_alerta_api_call(json_dumps(PayloadOfArgs), key, outcome)} :
             /\ ret' = IF r.raised = None THEN Return("None") ELSE Raise(r.raised[1].type)
             /\ calls' = r.calls
             /\ requests' = r.requests
    /\ log' = <<>>
    /\ payload' = Some(PayloadOfArgs)
    /\ pc' = "done"
    /\ op' = "_make_alerta_api_call"
    /\ UNCHANGED <<self, args, env>>

Next == SendToAlerta \/ PostToAlerta \/ MakeAlertaApiCall

Spec == Init /\ [][Next]_vars

SpecResources == InitResources /\ [][Next]_vars

TypeOK ==
    /\ pc \in {"ready", "done"}
    /\ op \in {"none", "send_to_alerta", "_post_to_alerta", "_make_alerta_api_call"}
    /\ ret.kind \in {"pending", "return", "raise"}
    /\ Len(requests) <= 1

----------------------------------------------------------------------------
(* What a finished call shows *)

Sent == pc = "done" /\ op = "send_to_alerta"

\* the call went through _post_to_alerta
ThroughPost == pc = "done" /\ op \in {"send_to_alerta", "_post_to_alerta"}

IsSecretCall(c) == c.fn = "secret"

IsUrlopenCall(c) == c.fn = "urlopen"

\* the answers of the secret store, in the order of the lookups
SecretAnswersGiven == [i \in DOMAIN SelectSeq(calls, IsSecretCall) |->
                         SelectSeq(calls, IsSecretCall)[i].answer]

\* what urlopen did, once per POST
UrlopenAnswersGiven == [i \in DOMAIN SelectSeq(calls, IsUrlopenCall) |->
                          SelectSeq(calls, IsUrlopenCall)[i].answer]

TransportEntered == ThroughPost /\ SecretAnswersGiven # <<>>

\* json.loads of a serialized payload: the dict with one key per member
json_loads(doc) == [k \in {doc[i].key : i \in DOMAIN doc} |->
                      (doc[CHOOSE i \in DOMAIN doc : doc[i].key = k]).value]

Levels(l) == [i \in DOMAIN l |-> l[i].level]

BaseKeys == {"resource", "event", "environment", "severity", "service", "group",
             "text", "attributes"}

----------------------------------------------------------------------------
(* Claims *)

\* C1: send_to_alerta always completes by returning the object it was called
\* on, for every input and every answer of the collaborators; it never raises,
\* also for a resource or a severity that is no key of its table.
C1_AlwaysReturnsSelf == Sent => ret = ReturnSelf

\* C2: when the rate limiter denies the call, send_to_alerta returns at once:
\* the rate limiter is the only collaborator called, nothing is logged, no
\* credential is read, no payload is built and no request is made, whatever
\* the arguments; and the rate limiter is the first thing any send asks.
C2_RateLimitGateFirst ==
    Sent => /\ calls # <<>>
            /\ calls[1].fn = "_passed_rate_limit"
            /\ calls[1].arg = "aggregator"
            /\ calls[1].answer = env.rate_limit_ok
            /\ ~env.rate_limit_ok => /\ Len(calls) = 1
                                     /\ log = <<>>
                                     /\ requests = <<>>
                                     /\ payload = None
                                     /\ ret = ReturnSelf

C2_Witness ==
    /\ Sent
    /\ ~env.rate_limit_ok
    /\ args.resource = Some("no-such-resource")
    /\ args.event = None
    /\ ~env.test_mode

\* C3: when the rate limit passes and resource is None, or event is None,
\* send_to_alerta makes no request and logs exactly one error, "Resource must
\* be provided" when resource is None (event None or not), else "Event name
\* must be provided"; no payload is built, and neither the test-mode flag nor
\* the transport is reached.
C3_MissingArgument ==
    (Sent /\ env.rate_limit_ok /\ (args.resource = None \/ args.event = None))
    => /\ requests = <<>>
       /\ Len(log) = 1
       /\ log[1].level = "error"
       /\ log[1].fmt = IF args.resource = None
                       THEN "Resource must be provided. Failed to send to aggregator."
                       ELSE "Event name must be provided. Failed to send to aggregator."
       /\ payload = None
       /\ Len(calls) = 1
       /\ ret = ReturnSelf

C3_Witness ==
    /\ Sent
    /\ env.rate_limit_ok
    /\ args.resource = None
    /\ args.event = None
    /\ Len(log) = 1

\* C4: in test mode send_to_alerta makes no request whatever its other
\* inputs are, and never enters the transport (no credential lookup, no
\* POST); when it has built a payload, what it logs is exactly one info
\* record holding the serialized payload.
C4_TestModeNoNetwork ==
    (Sent /\ env.test_mode)
    => /\ requests = <<>>
       /\ SecretAnswersGiven = <<>>
       /\ UrlopenAnswersGiven = <<>>
       /\ payload # None
            => log = <<LogRecord("info", "alertlib: would send to aggregator: %s",
                                 <<json_dumps(payload[1])>>)>>

C4_Witness ==
    /\ Sent
    /\ env.test_mode
    /\ payload # None
    /\ Levels(log) = <<"info">>

\* C5: when the transport is entered and the secret store answers its lookup
\* with None or with the empty string, no request is made, no second lookup
\* happens, and the log is exactly one warning holding the serialized payload
\* (so no error is logged).
C5_NoCredentialNoPost ==
    (TransportEntered /\ ~truthy_str(SecretAnswersGiven[1]))
    => /\ requests = <<>>
       /\ UrlopenAnswersGiven = <<>>
       /\ Len(SecretAnswersGiven) = 1
       /\ log = <<LogRecord("warning", "Not sending to Alerta (no API key found): %s",
                            <<json_dumps(payload[1])>>)>>
       /\ ret.kind = "return"

C5_Witness ==
    /\ Sent
    /\ SecretAnswersGiven = <<Some("")>>
    /\ Levels(log) = <<"warning">>

\* C6: once a POST has been issued through _post_to_alerta, the codes 201 and
\* 202 log nothing; any other code, and any exception of urlopen, logs exactly
\* one error holding the payload and the detail (the response body for a
\* code); the call returns normally and exactly one POST was issued.
C6_PostOutcome ==
    (ThroughPost /\ requests # <<>>)
    => /\ Len(requests) = 1
       /\ Len(UrlopenAnswersGiven) = 1
       /\ ret.kind = "return"
       /\ LET outcome == UrlopenAnswersGiven[1]
              failed(detail) == <<LogRecord("error", "Failed sending %s to Alerta: %s",
                                            <<json_dumps(payload[1]), detail>>)>>
          IN  IF outcome.kind = "raise" THEN log = failed(outcome.exc.arg)
              ELSE IF outcome.code \in {201, 202} THEN log = <<>>
              ELSE log = failed(outcome.body)

C6_Witness ==
    /\ Sent
    /\ requests # <<>>
    /\ UrlopenAnswersGiven[1].kind = "response"
    /\ UrlopenAnswersGiven[1].code = 202
    /\ log = <<>>

\* the severity table as the specification states it, keyed by logging level
C7_Table ==
    (50 :> "critical") @@ (40 :> "major") @@ (30 :> "warning")
    @@ (20 :> "informational") @@ (10 :> "debug") @@ (0 :> "unknown")

\* C7: a payload built with resolve false carries the severity the fixed
\* table gives for the alert's level; with resolve true it carries "cleared"
\* whatever the level.
C7_SeverityMapping ==
    (Sent /\ payload # None)
    => /\ self.severity \in DOMAIN C7_Table
       /\ payload[1].severity = IF args.resolve THEN "cleared" ELSE C7_Table[self.severity]

C7_Witness ==
    /\ Sent
    /\ payload # None
    /\ self.severity = ERROR
    /\ args.resolve
    /\ payload[1].severity = "cleared"

\* C8: for a recognized resource, the payload's environment, service and
\* group are those of the resource's table entry, and its resource and event
\* are the arguments; capitalizing changes the environment of no table entry.
C8_Classification ==
    /\ \A r \in DOMAIN MAP_RESOURCE_TO_ENV_SERVICE_AND_GROUP :
         /\ capitalize(MAP_RESOURCE_TO_ENV_SERVICE_AND_GROUP[r].env)
              = MAP_RESOURCE_TO_ENV_SERVICE_AND_GROUP[r].env
         /\ MAP_RESOURCE_TO_ENV_SERVICE_AND_GROUP[r].env \in {_ENV_PROD, _ENV_DEV}
    /\ (Sent /\ payload # None)
       => /\ args.resource # None
          /\ args.event # None
          /\ args.resource[1] \in DOMAIN MAP_RESOURCE_TO_ENV_SERVICE_AND_GROUP
          /\ payload[1].resource = args.resource[1]
          /\ payload[1].event = args.event[1]
          /\ payload[1].environment = MAP_RESOURCE_TO_ENV_SERVICE_AND_GROUP[args.resource[1]].env
          /\ payload[1].service = MAP_RESOURCE_TO_ENV_SERVICE_AND_GROUP[args.resource[1]].service
          /\ payload[1].group = MAP_RESOURCE_TO_ENV_SERVICE_AND_GROUP[args.resource[1]].group

C8_Witness ==
    /\ Sent
    /\ args.resource = Some("unknown-ec2-instance")
    /\ payload # None
    /\ payload[1].environment = _ENV_DEV
    /\ payload[1].service = <<"Unknown">>
    /\ payload[1].group = "tools"
    /\ requests # <<>>

\* C9: a payload has exactly the keys resource, event, environment, severity,
\* service, group, text and attributes, and the key timeout, with the value
\* passed, exactly when the timeout argument is neither None nor 0; its
\* attributes are exactly {initiative: the initiative argument}; and parsing
\* its serialization gives the payload back.
C9_PayloadKeys ==
    (Sent /\ payload # None)
    => /\ DOMAIN payload[1] = BaseKeys \cup (IF args.timeout # None /\ args.timeout[1] # 0
                                             THEN {"timeout"} ELSE {})
       /\ "timeout" \in DOMAIN payload[1] => payload[1].timeout = args.timeout[1]
       /\ DOMAIN payload[1].attributes = {"initiative"}
       /\ payload[1].attributes.initiative = args.initiative
       /\ payload[1].text = self.summary
       /\ json_loads(json_dumps(payload[1])) = payload[1]

C9_Witness ==
    /\ Sent
    /\ payload # None
    /\ args.timeout = Some(0)
    /\ DOMAIN payload[1] = BaseKeys

\* C10: every POST issued through _post_to_alerta carries the header
\* Authorization: Key <credential> for the non-empty credential the gate of
\* _post_to_alerta saw, whatever the secret store answers to the lookups.
C10_HeaderFromCheckedCredential ==
    (ThroughPost /\ requests # <<>>)
    => /\ truthy_str(SecretAnswersGiven[1])
       /\ requests[1].headers["Authorization"] = "Key " \o pystr(SecretAnswersGiven[1])
       /\ requests[1].headers["Content-Type"] = "application/json"

====
